---- MODULE Spec2Model ----
(***************************************************************************)
(* Model of the long-running-job support of the Pub/Sub client             *)
(* (src/index.js, class Client).                                           *)
(*                                                                         *)
(* The client is single threaded (Node.js): every handler runs to its next *)
(* await without interruption, so one action is one such run.  The points  *)
(* where a call is suspended are the two awaits every request goes         *)
(* through: addAuthentication (pc "..._auth") and request() (pc            *)
(* "..._req").  The broker, the credentials service and the event loop's   *)
(* timer queue are the environment: they decide the pull response, whether *)
(* a call fails and when a setInterval callback runs.                      *)
(***************************************************************************)
EXTENDS Integers, Sequences, FiniteSets, TLC

\* ---------------------------------------------------------------- bounds
\* setInterval timers created over the life of the Client.
MaxTimers == 2
\* modifyAckDeadline calls started by timer callbacks and not yet settled.
MaxRenewals == 2
\* Bytes (or characters) of a message's data.
MaxLen == 3

\* ------------------------------------------------------------- value sets
\* ackIds the broker hands out.
Handles == {"A1", "A2"}
\* Callers of the Client's methods that may be suspended at the same time.
Callers == {"c1", "c2"}

\* The extendBy option the callers pass, in milliseconds (README).
ExtendBy == 15000

\* The ackDeadline arguments the callers pass to modifyAckDeadline, in
\* milliseconds.
AckDeadlines == {1500, 15000}

\* Byte values, and character codes, the data of a message is made of.
Alphabet == {0, 65, 127, 128, 255}

\* The data of a message handed to publish: a Buffer (bytes) or a string
\* (character codes), of at most n elements.
DataUpTo(n) ==
    {[type |-> ty, value |-> v] :
        ty \in {"bytes", "string"},
        v \in UNION {[1..k -> Alphabet] : k \in 0..n}}

\* A key the longRunningJobTimers object does not hold.
NoTimer == 0

\* No request, no pull response, no settled call in the step just taken.
NoRequest == [op |-> "none"]
NoResults == [kind |-> "none", receivedMessages |-> <<>>]
NoSettle == [caller |-> "none", call |-> "none", how |-> "none", ackId |-> "none"]
\* No await ended in the step just taken.
NoAwait == [of |-> "none", ok |-> TRUE]
\* No REST call of the caller is suspended.
NoCall == [op |-> "none"]
\* No message's data is followed.
NoMessageData == [at |-> "none", sent |-> <<>>, data |-> <<>>]

\* What request() resolves pull with: a falsy body, a body without the
\* receivedMessages field, or a body with a list of received messages
\* (each message is represented by its ackId).
PullResults ==
    {[kind |-> "nobody", receivedMessages |-> <<>>],
     [kind |-> "nofield", receivedMessages |-> <<>>]}
    \cup {[kind |-> "list", receivedMessages |-> s] :
            s \in {<<>>} \cup {<<h>> : h \in Handles}
                         \cup {<<h, g>> : h \in Handles, g \in Handles}}

\* The arguments callers give to pull, modifyAckDeadline, acknowledge and
\* publish.
PullOptions == {[returnImmediately |-> FALSE, maxMessages |-> 2]}
AckIdLists == {<<"A1", "A2">>}
MessageLists ==
    {<<[type |-> "string", value |-> <<65>>], [type |-> "bytes", value |-> <<128>>]>>}

VARIABLES
    longRunningJobTimers, \* this.longRunningJobTimers: ackId -> timer or NoTimer
    intervals,            \* the timers setInterval has created, by timer id
    renewals,             \* unsettled modifyAckDeadline calls of timer callbacks
    pc,                   \* where each caller's call is suspended
    ackId,                \* the ackId of each caller's suspended call
    log,                  \* messages handed to this.log by the last step
    wire,                 \* request handed to request() by the last step
    results,              \* pull response handled by the last step
    settled,              \* the caller's promise the last step settled
    awaited,              \* the await the last step resumed from, and how
    unhandled,            \* the last step rejected a promise nobody awaits
    rest,                 \* the arguments of each caller's suspended REST call
    message               \* a message's data on its way: publish, broker, pull

vars == <<longRunningJobTimers, intervals, renewals, pc, ackId,
          log, wire, results, settled, awaited, unhandled, rest, message>>

TimerIds == 1..Len(intervals)

\* --------------------------------------------------------------- requests
\* ackDeadline / 1000 of modifyAckDeadline, a JavaScript number: the whole
\* seconds and the remaining thousandths of a second.
AckDeadlineSeconds(ackDeadline) ==
    [whole |-> ackDeadline \div 1000, thousandths |-> ackDeadline % 1000]

PullRequest(returnImmediately, maxMessages) ==
    [op |-> "pull", returnImmediately |-> returnImmediately,
     maxMessages |-> maxMessages]

ModifyAckDeadlineRequest(ackIds, ackDeadline) ==
    [op |-> "modifyAckDeadline", ackIds |-> ackIds,
     ackDeadlineSeconds |-> AckDeadlineSeconds(ackDeadline)]

AcknowledgeRequest(ackIds) ==
    [op |-> "acknowledge", ackIds |-> ackIds]

\* await this.addAuthentication(headers) and the promise of request(req)
\* end: fulfilled (ok) or rejected.
Authentication(ok) == [of |-> "addAuthentication", ok |-> ok]
Request(ok) == [of |-> "request", ok |-> ok]

\* ------------------------------------------------------------------ codec
\* The 65th character of base64 text, "=".
Pad == 64

\* Buffer.from(data): the bytes of a Buffer, the UTF-8 bytes of a string.
RECURSIVE Utf8(_)
Utf8(chars) ==
    IF Len(chars) = 0 THEN <<>>
    ELSE (IF chars[1] < 128
          THEN <<chars[1]>>
          ELSE <<192 + (chars[1] \div 64), 128 + (chars[1] % 64)>>)
         \o Utf8(Tail(chars))

BufferFrom(d) == IF d.type = "string" THEN Utf8(d.value) ELSE d.value

\* buffer.toString('base64'): the text, each character by its index in the
\* base64 alphabet.
RECURSIVE Base64(_)
Base64(b) ==
    IF Len(b) = 0 THEN <<>>
    ELSE IF Len(b) = 1
    THEN <<b[1] \div 4, (b[1] % 4) * 16, Pad, Pad>>
    ELSE IF Len(b) = 2
    THEN <<b[1] \div 4, (b[1] % 4) * 16 + (b[2] \div 16), (b[2] % 16) * 4, Pad>>
    ELSE <<b[1] \div 4, (b[1] % 4) * 16 + (b[2] \div 16),
           (b[2] % 16) * 4 + (b[3] \div 64), b[3] % 64>>
         \o Base64(SubSeq(b, 4, Len(b)))

\* Buffer.from(text, 'base64'): the bytes of base64 text.
RECURSIVE FromBase64(_)
FromBase64(s) ==
    IF Len(s) < 4 THEN <<>>
    ELSE IF s[3] = Pad
    THEN <<s[1] * 4 + (s[2] \div 16)>>
    ELSE IF s[4] = Pad
    THEN <<s[1] * 4 + (s[2] \div 16), (s[2] % 16) * 16 + (s[3] \div 4)>>
    ELSE <<s[1] * 4 + (s[2] \div 16), (s[2] % 16) * 16 + (s[3] \div 4),
           (s[3] % 4) * 64 + s[4]>>
         \o FromBase64(SubSeq(s, 5, Len(s)))

\* buffer.toString('ascii'): the character codes; decoding as ascii unsets
\* the highest bit of every byte.
ToAscii(b) == [i \in 1..Len(b) |-> b[i] % 128]

\* m.data = Buffer.from(m.data).toString('base64')
Encode(d) == Base64(BufferFrom(d))

\* payload.message.data = Buffer.from(payload.message.data, 'base64')
\*                              .toString('ascii')
Decode(text) == ToAscii(FromBase64(text))

\* The request publish sends: every message with its data encoded.
PublishRequest(messages) ==
    [op |-> "publish",
     messages |-> [i \in 1..Len(messages) |-> Encode(messages[i])]]

\* The request that the call of pull, modifyAckDeadline, acknowledge or
\* publish sends after its await of addAuthentication.
RequestOf(call) ==
    CASE call.op = "pull" ->
            PullRequest(call.returnImmediately, call.maxMessages)
      [] call.op = "modifyAckDeadline" ->
            ModifyAckDeadlineRequest(call.ackIds, call.ackDeadline)
      [] call.op = "acknowledge" ->
            AcknowledgeRequest(call.ackIds)
      [] call.op = "publish" ->
            PublishRequest(call.messages)

\* The method of the Client whose call caller c is suspended in.
CallOf(c) ==
    IF pc[c] \in {"pull_auth", "pull_req", "init_auth", "init_req"}
    THEN "pullLongRunningJob"
    ELSE IF pc[c] \in {"ack_auth", "ack_req"}
    THEN "acknowledgeLongRunningJob"
    ELSE rest[c].op

\* The promise of caller c's call is fulfilled.
Resolve(c, how, h) ==
    [caller |-> c, call |-> CallOf(c), how |-> how, ackId |-> h]

\* Faulty variant of Reject: the error is caught and undefined returned.
RejectAsUndefined(c) == Resolve(c, "undefined", "none")

\* The promise of caller c's call is rejected with the error of the
\* await that failed: no method of the Client catches.
Reject(c) ==
    [caller |-> c, call |-> CallOf(c), how |-> "rejected", ackId |-> "none"]

\* ----------------------------------------------------------------- timers
\* setInterval(callback, withPeriod): a new live timer whose callback has
\* captured payload.ackId.
SetInterval(ivs, h) == Append(ivs, [ackId |-> h, cleared |-> FALSE])

\* Faulty variant of ClearInterval: the timer is left running.
ClearNothing(ivs, t) == ivs

\* Faulty variant of ClearInterval: every timer of the Client is cleared.
ClearEveryInterval(ivs, t) ==
    [i \in DOMAIN ivs |-> [ivs[i] EXCEPT !.cleared = TRUE]]

\* clearInterval(timer)
ClearInterval(ivs, t) == [ivs EXCEPT ![t].cleared = TRUE]

\* The event loop still runs the callback of timer t.
Live(t) == t \in TimerIds /\ ~intervals[t].cleared

\* this.longRunningJobTimers[payload.ackId] = setInterval(...)
Register(h, t) == [longRunningJobTimers EXCEPT ![h] = t]

\* if (this.longRunningJobTimers[ackId])
Registered(h) == longRunningJobTimers[h] # NoTimer

\* Faulty variant of Delete: the registry is emptied.
DeleteEvery(h) == [g \in Handles |-> NoTimer]

\* Faulty variant of Delete: the entry is kept.
DeleteNothing(h) == longRunningJobTimers

\* delete this.longRunningJobTimers[ackId]
Delete(h) == [longRunningJobTimers EXCEPT ![h] = NoTimer]

\* Faulty variant of NoMessage: the test of results[0] is left out.
NoMessageWithoutFirstTest(r) == r.kind # "list"

\* if (!results || !results.receivedMessages) return;
\* if (!results || !results[0]) return;
NoMessage(r) == r.kind # "list" \/ Len(r.receivedMessages) = 0

\* Faulty variant of Payload: the last received message is taken.
PayloadLast(r) ==
    IF Len(r.receivedMessages) = 0 THEN "undefined"
    ELSE r.receivedMessages[Len(r.receivedMessages)]

\* const payload = results[0];
Payload(r) ==
    IF Len(r.receivedMessages) = 0 THEN "undefined" ELSE r.receivedMessages[1]

\* Unsettled modifyAckDeadline calls of timer callbacks, all ackIds.
InFlight ==
    LET Sum[S \in SUBSET Handles] ==
            IF S = {} THEN 0
            ELSE LET h == CHOOSE x \in S : TRUE
                 IN renewals[h].auth + renewals[h].req + Sum[S \ {h}]
    IN Sum[Handles]

\* new Client(opts)
Constructed ==
    /\ longRunningJobTimers = [h \in Handles |-> NoTimer]
    /\ intervals = <<>>
    /\ renewals = [h \in Handles |-> [auth |-> 0, req |-> 0]]
    /\ pc = [c \in Callers |-> "idle"]
    /\ ackId = [c \in Callers |-> "none"]
    /\ log = <<>>
    /\ wire = NoRequest
    /\ results = NoResults
    /\ settled = NoSettle
    /\ awaited = NoAwait
    /\ unhandled = FALSE
    /\ rest = [c \in Callers |-> NoCall]

Init == Constructed /\ message = NoMessageData

\* ------------------------------------------------------ pullLongRunningJob
\* pullLongRunningJob calls pull, which runs up to its await of
\* addAuthentication.
PullLongRunningJob(c) ==
    /\ pc[c] = "idle"
    /\ awaited' = NoAwait
    /\ UNCHANGED <<rest, message>>
    /\ pc' = [pc EXCEPT ![c] = "pull_auth"]
    /\ log' = <<>>
    /\ wire' = NoRequest
    /\ results' = NoResults
    /\ settled' = NoSettle
    /\ unhandled' = FALSE
    /\ UNCHANGED <<longRunningJobTimers, intervals, renewals, ackId>>

\* addAuthentication of pull settles: pull logs and sends its request, or
\* the rejection passes through pull and .then to the caller.
PullAuthenticated(c, ok) ==
    /\ pc[c] = "pull_auth"
    /\ awaited' = Authentication(ok)
    /\ UNCHANGED <<rest, message>>
    /\ IF ok
       THEN /\ pc' = [pc EXCEPT ![c] = "pull_req"]
            /\ log' = <<"pull">>
            /\ wire' = PullRequest(TRUE, 1)
            /\ settled' = NoSettle
       ELSE /\ pc' = [pc EXCEPT ![c] = "idle"]
            /\ log' = <<>>
            /\ wire' = NoRequest
            /\ settled' = Reject(c)
    /\ results' = NoResults
    /\ unhandled' = FALSE
    /\ UNCHANGED <<longRunningJobTimers, intervals, renewals, ackId>>

\* The pull request fails: the .then callback is skipped.
PullFailed(c) ==
    /\ pc[c] = "pull_req"
    /\ awaited' = Request(FALSE)
    /\ UNCHANGED <<rest, message>>
    /\ pc' = [pc EXCEPT ![c] = "idle"]
    /\ log' = <<>>
    /\ wire' = NoRequest
    /\ results' = NoResults
    /\ settled' = Reject(c)
    /\ unhandled' = FALSE
    /\ UNCHANGED <<longRunningJobTimers, intervals, renewals, ackId>>

\* The pull request resolves with r and the .then callback runs: up to a
\* return, or up to the await of addAuthentication inside the initial
\* modifyAckDeadline.
PullResolved(c, r) ==
    /\ pc[c] = "pull_req"
    /\ awaited' = Request(TRUE)
    /\ UNCHANGED <<rest, message>>
    /\ results' = r
    /\ wire' = NoRequest
    /\ unhandled' = FALSE
    /\ IF NoMessage(r)
       THEN /\ pc' = [pc EXCEPT ![c] = "idle"]
            /\ log' = <<"results">>
            /\ settled' = Resolve(c, "undefined", "none")
            /\ UNCHANGED <<longRunningJobTimers, intervals, ackId>>
       ELSE /\ Len(intervals) < MaxTimers
            /\ intervals' = SetInterval(intervals, Payload(r))
            /\ longRunningJobTimers' = Register(Payload(r), Len(intervals'))
            /\ ackId' = [ackId EXCEPT ![c] = Payload(r)]
            /\ pc' = [pc EXCEPT ![c] = "init_auth"]
            /\ log' = <<"results", "starting", "modify">>
            /\ settled' = NoSettle
    /\ UNCHANGED renewals

\* addAuthentication of the initial modifyAckDeadline settles.
InitialAuthenticated(c, ok) ==
    /\ pc[c] = "init_auth"
    /\ awaited' = Authentication(ok)
    /\ UNCHANGED <<rest, message>>
    /\ IF ok
       THEN /\ pc' = [pc EXCEPT ![c] = "init_req"]
            /\ wire' = ModifyAckDeadlineRequest(<<ackId[c]>>, ExtendBy)
            /\ settled' = NoSettle
            /\ UNCHANGED ackId
       ELSE /\ pc' = [pc EXCEPT ![c] = "idle"]
            /\ wire' = NoRequest
            /\ settled' = Reject(c)
            /\ ackId' = [ackId EXCEPT ![c] = "none"]
    /\ log' = <<>>
    /\ results' = NoResults
    /\ unhandled' = FALSE
    /\ UNCHANGED <<longRunningJobTimers, intervals, renewals>>

\* Faulty variant of InitialOutcome: a failed initial extension is swallowed.
InitialOutcomeSwallowingFailure(c, ok) == Resolve(c, "message", ackId[c])

\* await this.modifyAckDeadline(...); ...; return payload;
InitialOutcome(c, ok) ==
    IF ok THEN Resolve(c, "message", ackId[c]) ELSE Reject(c)

\* The initial modifyAckDeadline request settles: the payload is decoded
\* and returned, or the rejection goes to the caller.
InitialSettled(c, ok) ==
    /\ pc[c] = "init_req"
    /\ awaited' = Request(ok)
    /\ UNCHANGED <<rest, message>>
    /\ pc' = [pc EXCEPT ![c] = "idle"]
    /\ ackId' = [ackId EXCEPT ![c] = "none"]
    /\ settled' = InitialOutcome(c, ok)
    /\ log' = <<>>
    /\ wire' = NoRequest
    /\ results' = NoResults
    /\ unhandled' = FALSE
    /\ UNCHANGED <<longRunningJobTimers, intervals, renewals>>

\* ----------------------------------------------- acknowledgeLongRunningJob
\* acknowledgeLongRunningJob runs up to the await of addAuthentication
\* inside acknowledge.
AcknowledgeLongRunningJob(c, h) ==
    /\ pc[c] = "idle"
    /\ awaited' = NoAwait
    /\ UNCHANGED <<rest, message>>
    /\ IF Registered(h)
       THEN /\ log' = <<"stopping", "acknowledge">>
            /\ intervals' = ClearInterval(intervals, longRunningJobTimers[h])
            /\ longRunningJobTimers' = Delete(h)
       ELSE /\ log' = <<"acknowledge">>
            /\ UNCHANGED <<longRunningJobTimers, intervals>>
    /\ pc' = [pc EXCEPT ![c] = "ack_auth"]
    /\ ackId' = [ackId EXCEPT ![c] = h]
    /\ wire' = NoRequest
    /\ results' = NoResults
    /\ settled' = NoSettle
    /\ unhandled' = FALSE
    /\ UNCHANGED renewals

\* addAuthentication of acknowledge settles.
AcknowledgeAuthenticated(c, ok) ==
    /\ pc[c] = "ack_auth"
    /\ awaited' = Authentication(ok)
    /\ UNCHANGED <<rest, message>>
    /\ IF ok
       THEN /\ pc' = [pc EXCEPT ![c] = "ack_req"]
            /\ wire' = AcknowledgeRequest(<<ackId[c]>>)
            /\ settled' = NoSettle
            /\ UNCHANGED ackId
       ELSE /\ pc' = [pc EXCEPT ![c] = "idle"]
            /\ wire' = NoRequest
            /\ settled' = Reject(c)
            /\ ackId' = [ackId EXCEPT ![c] = "none"]
    /\ log' = <<>>
    /\ results' = NoResults
    /\ unhandled' = FALSE
    /\ UNCHANGED <<longRunningJobTimers, intervals, renewals>>

\* The acknowledge request settles.
AcknowledgeSettled(c, ok) ==
    /\ pc[c] = "ack_req"
    /\ awaited' = Request(ok)
    /\ UNCHANGED <<rest, message>>
    /\ pc' = [pc EXCEPT ![c] = "idle"]
    /\ ackId' = [ackId EXCEPT ![c] = "none"]
    /\ settled' = IF ok THEN Resolve(c, "acknowledged", ackId[c]) ELSE Reject(c)
    /\ log' = <<>>
    /\ wire' = NoRequest
    /\ results' = NoResults
    /\ unhandled' = FALSE
    /\ UNCHANGED <<longRunningJobTimers, intervals, renewals>>

\* ------------------------------------------------------ the renewal timer
\* Faulty variant of CanTick: a tick is skipped while an earlier renewal of
\* the same ackId is unsettled.
CanTickWhenSettled(t) ==
    /\ Live(t)
    /\ renewals[intervals[t].ackId] = [auth |-> 0, req |-> 0]

\* The event loop may run the callback of timer t: setInterval runs it
\* every withPeriod until clearInterval.
CanTick(t) == Live(t)

\* The callback of timer t runs: it logs and calls modifyAckDeadline, which
\* logs and runs up to its await of addAuthentication.  The promise is
\* dropped.
Tick(t) ==
    /\ CanTick(t)
    /\ awaited' = NoAwait
    /\ UNCHANGED <<rest, message>>
    /\ InFlight < MaxRenewals
    /\ renewals' = [renewals EXCEPT ![intervals[t].ackId].auth = @ + 1]
    /\ log' = <<"loop", "modify">>
    /\ wire' = NoRequest
    /\ results' = NoResults
    /\ settled' = NoSettle
    /\ unhandled' = FALSE
    /\ UNCHANGED <<longRunningJobTimers, intervals, pc, ackId>>

\* addAuthentication of a timer callback's modifyAckDeadline for h settles:
\* the request is sent, or the dropped promise rejects.
RenewalAuthenticated(h, ok) ==
    /\ renewals[h].auth > 0
    /\ awaited' = Authentication(ok)
    /\ UNCHANGED <<rest, message>>
    /\ IF ok
       THEN /\ renewals' = [renewals EXCEPT ![h].auth = @ - 1,
                                            ![h].req = @ + 1]
            /\ wire' = ModifyAckDeadlineRequest(<<h>>, ExtendBy)
            /\ unhandled' = FALSE
       ELSE /\ renewals' = [renewals EXCEPT ![h].auth = @ - 1]
            /\ wire' = NoRequest
            /\ unhandled' = TRUE
    /\ log' = <<>>
    /\ results' = NoResults
    /\ settled' = NoSettle
    /\ UNCHANGED <<longRunningJobTimers, intervals, pc, ackId>>

\* The request of a timer callback's modifyAckDeadline for h settles; a
\* failure rejects the dropped promise.
RenewalSettled(h, ok) ==
    /\ renewals[h].req > 0
    /\ awaited' = Request(ok)
    /\ UNCHANGED <<rest, message>>
    /\ renewals' = [renewals EXCEPT ![h].req = @ - 1]
    /\ unhandled' = ~ok
    /\ log' = <<>>
    /\ wire' = NoRequest
    /\ results' = NoResults
    /\ settled' = NoSettle
    /\ UNCHANGED <<longRunningJobTimers, intervals, pc, ackId>>

\* ------------------------------ pull, modifyAckDeadline, acknowledge, publish
\* A caller calls one of the four methods: it runs up to its await of
\* addAuthentication, having logged what it logs before that.
Call(c, call, logged) ==
    /\ pc[c] = "idle"
    /\ pc' = [pc EXCEPT ![c] = "rest_auth"]
    /\ rest' = [rest EXCEPT ![c] = call]
    /\ log' = logged
    /\ awaited' = NoAwait
    /\ wire' = NoRequest
    /\ results' = NoResults
    /\ settled' = NoSettle
    /\ unhandled' = FALSE
    /\ UNCHANGED <<longRunningJobTimers, intervals, renewals, ackId, message>>

Pull(c, options) ==
    Call(c, [op |-> "pull", returnImmediately |-> options.returnImmediately,
             maxMessages |-> options.maxMessages], <<>>)

ModifyAckDeadline(c, ackIds, ackDeadline) ==
    Call(c, [op |-> "modifyAckDeadline", ackIds |-> ackIds,
             ackDeadline |-> ackDeadline], <<"modify">>)

Acknowledge(c, ackIds) ==
    Call(c, [op |-> "acknowledge", ackIds |-> ackIds], <<"acknowledge">>)

Publish(c, messages) ==
    Call(c, [op |-> "publish", messages |-> messages], <<>>)

\* addAuthentication of the call settles: the request is built and sent
\* (pull logs it first), or the caller's promise rejects.
CallAuthenticated(c, ok) ==
    /\ pc[c] = "rest_auth"
    /\ awaited' = Authentication(ok)
    /\ IF ok
       THEN /\ pc' = [pc EXCEPT ![c] = "rest_req"]
            /\ log' = IF rest[c].op = "pull" THEN <<"pull">> ELSE <<>>
            /\ wire' = RequestOf(rest[c])
            /\ settled' = NoSettle
            /\ UNCHANGED rest
       ELSE /\ pc' = [pc EXCEPT ![c] = "idle"]
            /\ log' = <<>>
            /\ wire' = NoRequest
            /\ settled' = Reject(c)
            /\ rest' = [rest EXCEPT ![c] = NoCall]
    /\ results' = NoResults
    /\ unhandled' = FALSE
    /\ UNCHANGED <<longRunningJobTimers, intervals, renewals, ackId, message>>

\* The request of the call settles, and with it the caller's promise.
CallSettled(c, ok) ==
    /\ pc[c] = "rest_req"
    /\ awaited' = Request(ok)
    /\ pc' = [pc EXCEPT ![c] = "idle"]
    /\ rest' = [rest EXCEPT ![c] = NoCall]
    /\ settled' = IF ok THEN Resolve(c, "response", "none") ELSE Reject(c)
    /\ log' = <<>>
    /\ wire' = NoRequest
    /\ results' = NoResults
    /\ unhandled' = FALSE
    /\ UNCHANGED <<longRunningJobTimers, intervals, renewals, ackId, message>>

\* ------------------------------------------------- the data of a message
\* publish encodes the data of a message the caller hands it.
PublishEncodes ==
    /\ message.at = "caller"
    /\ message' = [message EXCEPT !.at = "broker",
                                  !.data = Encode(message.sent)]
    /\ UNCHANGED <<longRunningJobTimers, intervals, renewals, pc, ackId,
                   log, wire, results, settled, awaited, unhandled, rest>>

\* pullLongRunningJob decodes the data of the message it received: the
\* broker delivers the data as it was published.
PullDecodes ==
    /\ message.at = "broker"
    /\ message' = [message EXCEPT !.at = "job",
                                  !.data = Decode(message.data)]
    /\ UNCHANGED <<longRunningJobTimers, intervals, renewals, pc, ackId,
                   log, wire, results, settled, awaited, unhandled, rest>>

\* The steps the program can take when the callers in S use the Client.
NextOf(S) ==
    \/ \E c \in S : PullLongRunningJob(c)
    \/ \E c \in S, ok \in BOOLEAN : PullAuthenticated(c, ok)
    \/ \E c \in S : PullFailed(c)
    \/ \E c \in S, r \in PullResults : PullResolved(c, r)
    \/ \E c \in S, ok \in BOOLEAN : InitialAuthenticated(c, ok)
    \/ \E c \in S, ok \in BOOLEAN : InitialSettled(c, ok)
    \/ \E c \in S, h \in Handles : AcknowledgeLongRunningJob(c, h)
    \/ \E c \in S, ok \in BOOLEAN : AcknowledgeAuthenticated(c, ok)
    \/ \E c \in S, ok \in BOOLEAN : AcknowledgeSettled(c, ok)
    \/ \E t \in 1..MaxTimers : Tick(t)
    \/ \E h \in Handles, ok \in BOOLEAN : RenewalAuthenticated(h, ok)
    \/ \E h \in Handles, ok \in BOOLEAN : RenewalSettled(h, ok)

Next == NextOf(Callers)

Spec == Init /\ [][Next]_vars

\* The steps of callers in S that use the four plain methods.
CallsOf(S) ==
    \/ \E c \in S, o \in PullOptions : Pull(c, o)
    \/ \E c \in S, a \in AckIdLists, d \in AckDeadlines :
          ModifyAckDeadline(c, a, d)
    \/ \E c \in S, a \in AckIdLists : Acknowledge(c, a)
    \/ \E c \in S, m \in MessageLists : Publish(c, m)
    \/ \E c \in S, ok \in BOOLEAN : CallAuthenticated(c, ok)
    \/ \E c \in S, ok \in BOOLEAN : CallSettled(c, ok)

\* One caller runs long-running jobs while another uses the plain methods
\* of the same Client.
RestNext == NextOf({"c1"}) \/ CallsOf({"c2"})

RestSpec == Init /\ [][RestNext]_vars

\* The event loop runs the callback of a timer that stays due.  The timers
\* do not depend on who calls the Client, so one caller makes the calls
\* one after the other here.
LiveSpec ==
    /\ Init
    /\ [][NextOf({"c1"})]_vars
    /\ \A t \in 1..MaxTimers : WF_vars(Tick(t))

\* A message, with any data of up to MaxLen bytes or characters, goes from
\* publish through the broker to pullLongRunningJob.
CodecInit ==
    /\ Constructed
    /\ message \in {[at |-> "caller", sent |-> d, data |-> d.value] :
                       d \in DataUpTo(MaxLen)}

CodecNext == PublishEncodes \/ PullDecodes

CodecSpec == CodecInit /\ [][CodecNext]_vars

\* =================================================================== claims
\* The steps of a caller c the claims speak about.
AcknowledgeCalled(c, h) ==
    pc[c] = "idle" /\ pc'[c] = "ack_auth" /\ ackId'[c] = h

\* Some timer whose callback renews h is still run by the event loop.
Renewing(h) == \E t \in TimerIds : intervals[t].ackId = h /\ ~intervals[t].cleared

\* C1: a call of acknowledgeLongRunningJob(h) for a registered h leaves no
\* timer that renews h and no registry entry for h, and starts one
\* acknowledge call for [h].  (Stated as claimed; the code breaks it.)
C1_AcknowledgeStopsRenewals ==
    [][\A c \in Callers, h \in Handles :
         (AcknowledgeCalled(c, h) /\ longRunningJobTimers[h] # NoTimer)
            => /\ ~Renewing(h)'
               /\ longRunningJobTimers'[h] = NoTimer
               /\ log' = <<"stopping", "acknowledge">>]_vars

\* C2: every live timer is the one the registry holds under its ackId, so
\* there is at most one live timer per ackId.  (Stated as claimed; the code
\* breaks it.)
C2_LiveTimersAreRegistered ==
    \A t \in TimerIds :
        ~intervals[t].cleared => longRunningJobTimers[intervals[t].ackId] = t

\* C3: when the pull resolves without a message (no body, no
\* receivedMessages field, an empty list), the caller's promise resolves
\* with undefined, no timer is created, the registry is unchanged and no
\* modifyAckDeadline call is started or sent.
C3_NoMessageStartsNothing ==
    [][(results'.kind \in {"nobody", "nofield"}
        \/ (results'.kind = "list" /\ results'.receivedMessages = <<>>))
         => /\ settled'.how = "undefined"
            /\ UNCHANGED <<longRunningJobTimers, intervals, renewals>>
            /\ wire' = NoRequest
            /\ \A c \in Callers : pc'[c] \notin {"init_auth", "init_req"}
                                    \/ pc'[c] = pc[c]]_vars

\* An empty list arrived while a job was registered, and the caller got
\* undefined.
C3_Witness ==
    /\ results.kind = "list"
    /\ results.receivedMessages = <<>>
    /\ settled.how = "undefined"
    /\ \E h \in Handles : longRunningJobTimers[h] # NoTimer

\* C4: when pullLongRunningJob resolves with a message, the registry holds
\* an entry for the message's ackId, and the entry is a live timer.
\* (Stated as claimed; the code breaks it.)
C4_ResolvedJobIsRegistered ==
    settled.how = "message"
        => /\ longRunningJobTimers[settled.ackId] \in TimerIds
           /\ ~intervals[longRunningJobTimers[settled.ackId]].cleared

\* C5: a message reaches the caller only in the step in which the request
\* of the initial modifyAckDeadline (for the message's ackId and extendBy)
\* is fulfilled; that request has been sent before; and when the initial
\* call fails, at either await, the caller's promise is rejected.
C5_InitialExtensionFirst ==
    [][\A c \in Callers :
         /\ (settled'.caller = c /\ settled'.how = "message")
               => /\ pc[c] = "init_req"
                  /\ awaited' = [of |-> "request", ok |-> TRUE]
                  /\ settled'.ackId = ackId[c]
         /\ (pc'[c] = "init_req" /\ pc[c] # "init_req")
               => /\ pc[c] = "init_auth"
                  /\ wire' = [op |-> "modifyAckDeadline",
                              ackIds |-> <<ackId[c]>>,
                              ackDeadlineSeconds |->
                                  [whole |-> 15, thousandths |-> 0]]
         /\ (pc[c] \in {"init_auth", "init_req"} /\ pc'[c] # pc[c]
                /\ ~awaited'.ok)
               => /\ settled'.caller = c
                  /\ settled'.how = "rejected"]_vars

\* A caller has just been handed a message.
C5_Witness == settled.how = "message" /\ awaited = [of |-> "request", ok |-> TRUE]

\* C6: the registry only ever holds live timers, so no call clears a timer
\* twice; and acknowledgeLongRunningJob(h) for an h without an entry
\* changes neither the registry nor any timer, raises nothing and goes on
\* to acknowledge.
C6_UnregisteredAcknowledgeIsNoOp ==
    /\ [](\A h \in Handles :
            longRunningJobTimers[h] # NoTimer
                => /\ longRunningJobTimers[h] \in TimerIds
                   /\ ~intervals[longRunningJobTimers[h]].cleared)
    /\ [][\A c \in Callers, h \in Handles :
            (AcknowledgeCalled(c, h) /\ longRunningJobTimers[h] = NoTimer)
               => /\ UNCHANGED <<longRunningJobTimers, intervals>>
                  /\ settled' = NoSettle
                  /\ log' = <<"acknowledge">>]_vars

\* acknowledgeLongRunningJob was called a second time for an ackId whose
\* timer an earlier call cleared.
C6_Witness ==
    \E c \in Callers :
        /\ pc[c] = "ack_auth"
        /\ log = <<"acknowledge">>
        /\ longRunningJobTimers[ackId[c]] = NoTimer
        /\ \E t \in TimerIds :
              intervals[t].ackId = ackId[c] /\ intervals[t].cleared

\* C7: registered ackIds have each their own timer; a call of
\* acknowledgeLongRunningJob(h1) changes neither the entry nor any timer
\* of another ackId h2, and the event loop goes on running h2's callback.
C7_OtherJobsUntouched ==
    /\ [](\A h \in Handles :
            longRunningJobTimers[h] # NoTimer
                => intervals[longRunningJobTimers[h]].ackId = h)
    /\ [](\A t \in TimerIds :
            (~intervals[t].cleared /\ InFlight < MaxRenewals)
                => ENABLED Tick(t))
    /\ [][\A c \in Callers, h1 \in Handles :
            AcknowledgeCalled(c, h1)
               => \A h2 \in Handles \ {h1} :
                    /\ longRunningJobTimers'[h2] = longRunningJobTimers[h2]
                    /\ \A t \in TimerIds :
                          intervals[t].ackId = h2
                             => intervals'[t] = intervals[t]]_vars

\* A registered job has just been acknowledged while another ackId is
\* registered with a live timer.
C7_Witness ==
    \E c \in Callers, h2 \in Handles :
        /\ pc[c] = "ack_auth"
        /\ log = <<"stopping", "acknowledge">>
        /\ h2 # ackId[c]
        /\ longRunningJobTimers[h2] # NoTimer
        /\ ~intervals[longRunningJobTimers[h2]].cleared

\* C8: while the acknowledge request that acknowledgeLongRunningJob(h) has
\* sent is outstanding, no timer callback's modifyAckDeadline request for
\* h is sent.  (Stated as claimed; the code breaks it.)
C8_NoRenewalAfterAcknowledge ==
    [][\A h \in Handles :
         (\E c \in Callers : pc[c] = "ack_req" /\ ackId[c] = h)
            => ~(/\ renewals'[h].req = renewals[h].req + 1
                 /\ wire'.op = "modifyAckDeadline"
                 /\ wire'.ackIds = <<h>>)]_vars

\* C9: as long as a timer is not cleared and the model has room for one
\* more renewal, its callback runs again and again, whatever became of the
\* renewals it started before; and a renewal that is sent, fails or is
\* fulfilled changes neither the registry nor any timer.
C9_TicksKeepFiring ==
    /\ \A t \in 1..MaxTimers :
          <>[](t \in TimerIds /\ ~intervals[t].cleared
                 /\ InFlight < MaxRenewals)
             => []<><<Tick(t)>>_vars
    /\ [][renewals' # renewals
            => UNCHANGED <<longRunningJobTimers, intervals>>]_vars

\* A timer is live while a renewal it started is unsettled after another
\* of its renewals failed.
C9_Witness ==
    \E t \in TimerIds :
        /\ ~intervals[t].cleared
        /\ unhandled
        /\ renewals[intervals[t].ackId].req > 0
        /\ longRunningJobTimers[intervals[t].ackId] = t

\* C10: when a timer callback's modifyAckDeadline call fails, the failure
\* is handed to this.log, and no caller's promise is rejected with it.
\* (Stated as claimed; the code breaks it.)
C10_RenewalFailureIsLogged ==
    unhandled => log # <<>> /\ settled = NoSettle

\* C11 as claimed: no timer callback starts a modifyAckDeadline call for h
\* while the request of an earlier one for h is outstanding.
C11_OneRenewalInFlight ==
    [][\A h \in Handles :
         renewals'[h].auth = renewals[h].auth + 1 => renewals[h].req = 0]_vars

\* C11: the callback of a live timer can run whatever renewals are
\* unsettled (up to the bound of the model), and a run of it starts one
\* more modifyAckDeadline call for its ackId and leaves the earlier ones,
\* of every ackId, as they are: renewals of one ackId overlap.
C11_RenewalsOverlap ==
    /\ [](\A t \in TimerIds :
            (~intervals[t].cleared /\ InFlight < MaxRenewals)
                => ENABLED Tick(t))
    /\ [][\A h \in Handles :
            renewals'[h].auth = renewals[h].auth + 1
               => /\ renewals'[h].req = renewals[h].req
                  /\ log' = <<"loop", "modify">>
                  /\ \A g \in Handles \ {h} : renewals'[g] = renewals[g]]_vars

\* A callback has just run for an ackId whose earlier renewal request is
\* outstanding.
C11_Witness ==
    /\ log = <<"loop", "modify">>
    /\ \E h \in Handles : renewals[h].auth > 0 /\ renewals[h].req > 0

\* C12: when the authentication or the request of pull fails,
\* pullLongRunningJob rejects its caller's promise and ends (no retry),
\* with no request sent, no timer created, no registry change and no
\* modifyAckDeadline call started; and undefined is only ever the result of
\* a fulfilled pull request.
C12_PullFailureRejects ==
    /\ [](settled.how = "undefined"
            => /\ awaited = [of |-> "request", ok |-> TRUE]
               /\ results.kind \in {"nobody", "nofield", "list"})
    /\ [][\A c \in Callers :
            (pc[c] \in {"pull_auth", "pull_req"} /\ pc'[c] # pc[c]
               /\ ~awaited'.ok)
               => /\ settled'.caller = c
                  /\ settled'.how = "rejected"
                  /\ pc'[c] = "idle"
                  /\ wire' = NoRequest
                  /\ UNCHANGED <<longRunningJobTimers, intervals,
                                 renewals>>]_vars

\* The request of pull has just failed for a Client that has never
\* created a timer, and the caller's promise is rejected.
C12_Witness ==
    /\ settled.call = "pullLongRunningJob"
    /\ settled.how = "rejected"
    /\ awaited = [of |-> "request", ok |-> FALSE]
    /\ intervals = <<>>

\* C13: the data pullLongRunningJob hands to the job is the data that was
\* handed to publish.  (Stated as claimed; the code breaks it.)
C13_RoundTrip ==
    message.at = "job" => message.data = message.sent.value

\* Caller c's pullLongRunningJob has started the timer of h and is
\* suspended in its initial modifyAckDeadline for h.
InitialPending(c, h) ==
    /\ pc[c] \in {"init_auth", "init_req"}
    /\ ackId[c] = h

\* C14: while the initial modifyAckDeadline for a handle is still pending,
\* and the handle has no timer of an earlier job, no timer callback runs for
\* it.  (Stated as claimed; the code breaks it.)
C14_InitialBeforeTicks ==
    [][\A h \in Handles :
         (/\ \E c \in Callers : InitialPending(c, h)
          /\ Cardinality({t \in TimerIds : intervals[t].ackId = h}) = 1)
            => renewals'[h].auth # renewals[h].auth + 1]_vars

\* C15: a pullLongRunningJob that rejects leaves registry and timers as they
\* were before the call: a failure of pull changes neither, and after a
\* failure of the initial modifyAckDeadline for a handle without timer of an
\* earlier job, the handle has no entry and no live timer.  (Stated as
\* claimed; the code breaks it.)
C15_FailedStartLeavesNothing ==
    [][\A c \in Callers :
         (settled'.caller = c /\ settled'.how = "rejected")
            => /\ pc[c] \in {"pull_auth", "pull_req"}
                    => UNCHANGED <<longRunningJobTimers, intervals>>
               /\ \A h \in Handles :
                    (/\ InitialPending(c, h)
                     /\ Cardinality({t \in TimerIds : intervals[t].ackId = h}) = 1)
                       => /\ longRunningJobTimers'[h] = NoTimer
                          /\ \A t \in TimerIds :
                               intervals'[t].ackId = h => intervals'[t].cleared]_vars

\* C17: acknowledgeLongRunningJob(h) cancels the registered timer of h and
\* deletes the entry of h before it calls acknowledge; the end of
\* acknowledge, fulfilled or rejected, changes neither registry nor timers
\* and starts no renewal; a rejection rejects the caller's promise; and a
\* cancelled timer stays cancelled, its callback never runs again.
C17_AcknowledgeFailureKeepsCancelled ==
    /\ [](\A t \in TimerIds : intervals[t].cleared => ~ENABLED Tick(t))
    /\ [][\A c \in Callers, h \in Handles :
            (AcknowledgeCalled(c, h) /\ Registered(h))
               => /\ intervals'[longRunningJobTimers[h]].cleared
                  /\ longRunningJobTimers'[h] = NoTimer]_vars
    /\ [][\A c \in Callers :
            (pc[c] \in {"ack_auth", "ack_req"} /\ pc'[c] # pc[c])
               => /\ UNCHANGED <<longRunningJobTimers, intervals, renewals>>
                  /\ ~awaited'.ok
                       => /\ settled'.caller = c
                          /\ settled'.call = "acknowledgeLongRunningJob"
                          /\ settled'.how = "rejected"
                          /\ pc'[c] = "idle"]_vars
    /\ [][\A t \in TimerIds :
            intervals[t].cleared => intervals'[t] = intervals[t]]_vars

\* The acknowledge request of an acknowledgeLongRunningJob that cancelled
\* the registered timer of its ackId has just failed.
C17_Witness ==
    /\ settled.call = "acknowledgeLongRunningJob"
    /\ settled.how = "rejected"
    /\ awaited = [of |-> "request", ok |-> FALSE]
    /\ \E t \in TimerIds :
          /\ intervals[t].cleared
          /\ longRunningJobTimers[intervals[t].ackId] = NoTimer
          /\ renewals[intervals[t].ackId] = [auth |-> 0, req |-> 0]

\* C18: pullLongRunningJob pulls with returnImmediately true and
\* maxMessages 1; of a response with messages it takes the first: one new
\* timer for its ackId, the entry of that ackId set to it, nothing else of
\* registry, timers and renewals changed; the initial modifyAckDeadline
\* and the resolved payload are for that ackId; and every modifyAckDeadline
\* request is for the one ackId of some timer.
C18_OnlyFirstMessage ==
    /\ [](wire.op = "modifyAckDeadline"
            => /\ Len(wire.ackIds) = 1
               /\ \E t \in TimerIds : intervals[t].ackId = wire.ackIds[1])
    /\ [][\A c \in Callers :
            (pc[c] = "pull_auth" /\ pc'[c] = "pull_req")
               => wire' = [op |-> "pull", returnImmediately |-> TRUE,
                           maxMessages |-> 1]]_vars
    /\ [][\A c \in Callers :
            (pc[c] = "pull_req" /\ pc'[c] = "init_auth")
               => LET first == results'.receivedMessages[1]
                  IN  /\ intervals' = Append(intervals,
                                             [ackId |-> first, cleared |-> FALSE])
                      /\ longRunningJobTimers' =
                            [longRunningJobTimers EXCEPT ![first] = Len(intervals')]
                      /\ ackId'[c] = first
                      /\ UNCHANGED renewals]_vars
    /\ [][\A c \in Callers :
            /\ (pc[c] = "init_auth" /\ pc'[c] = "init_req")
                  => wire'.op = "modifyAckDeadline" /\ wire'.ackIds = <<ackId[c]>>
            /\ (settled'.caller = c /\ settled'.how = "message")
                  => settled'.ackId = ackId[c]]_vars

\* A pull response with two different messages has just been handled, and
\* the second message's ackId has no entry.
C18_Witness ==
    /\ results.kind = "list"
    /\ Len(results.receivedMessages) = 2
    /\ results.receivedMessages[1] # results.receivedMessages[2]
    /\ longRunningJobTimers[results.receivedMessages[1]] = Len(intervals)
    /\ longRunningJobTimers[results.receivedMessages[2]] = NoTimer
    /\ \E c \in Callers :
          pc[c] = "init_auth" /\ ackId[c] = results.receivedMessages[1]

\* Caller c's pullLongRunningJob has received a message and registers it.
JobStarted(c) == pc[c] = "pull_req" /\ pc'[c] = "init_auth"

\* C16: a step changes the registry or a timer only when it is
\* pullLongRunningJob registering the message it received (one new timer,
\* the entry of that ackId set to it, no other entry changed) or a call of
\* acknowledgeLongRunningJob(h) (the registered timer of h cleared, the
\* entry of h deleted, no other entry changed); the steps of pull,
\* modifyAckDeadline, acknowledge and publish and of the timer callbacks'
\* renewals change neither.
C16_RegistryFrame ==
    /\ [][(longRunningJobTimers' # longRunningJobTimers \/ intervals' # intervals)
            => \E c \in Callers :
                 \/ /\ JobStarted(c)
                    /\ intervals' = SetInterval(intervals, ackId'[c])
                    /\ longRunningJobTimers' =
                          [longRunningJobTimers EXCEPT ![ackId'[c]] = Len(intervals')]
                 \/ \E h \in Handles :
                       /\ AcknowledgeCalled(c, h)
                       /\ longRunningJobTimers[h] \in TimerIds
                       /\ intervals' =
                             [intervals EXCEPT ![longRunningJobTimers[h]].cleared = TRUE]
                       /\ longRunningJobTimers' =
                             [longRunningJobTimers EXCEPT ![h] = NoTimer]]_vars
    /\ [][(\/ rest' # rest
           \/ \E c \in Callers : pc[c] \in {"rest_auth", "rest_req"} /\ pc'[c] # pc[c]
           \/ renewals' # renewals)
            => UNCHANGED <<longRunningJobTimers, intervals>>]_vars

\* acknowledge has sent its request for ackIds that are registered with a
\* live timer, while a timer callback's renewal is in flight.
C16_Witness ==
    /\ wire.op = "acknowledge"
    /\ \E c \in Callers : pc[c] = "rest_req" /\ rest[c].op = "acknowledge"
    /\ \A i \in 1..Len(wire.ackIds) :
          /\ longRunningJobTimers[wire.ackIds[i]] \in TimerIds
          /\ ~intervals[longRunningJobTimers[wire.ackIds[i]]].cleared
    /\ InFlight > 0

\* C19: the ackDeadlineSeconds of every modifyAckDeadline request is a
\* whole number of seconds.  (Stated as claimed; the code breaks it.)
C19_WholeSeconds ==
    wire.op = "modifyAckDeadline" => wire.ackDeadlineSeconds.thousandths = 0

====
